---- MODULE Spec2Model ----
(***************************************************************************)
(* Model of the weekly allocation planner (WeeklyPlannerView) and of the   *)
(* hierarchy resolver (TaskAnalysisView.hierarchyMap).                     *)
(***************************************************************************)
EXTENDS Integers, Sequences, FiniteSets, TLC

(***************************************************************************)
(* Bounds of the model                                                     *)
(***************************************************************************)
\* largest week index an edit is applied to
MaxWeekIndex == 1

\* number of cell edits made after a developer is selected
MaxEdits == 2

\* largest week index an edit is applied to in the calendar runs
MaxCalendarWeek == 5

\* number of cell edits in the calendar runs
MaxCalendarEdits == 2

\* number of user actions on the profitability calculator
MaxUserActions == 5

\* number of changes of the analysis filter
MaxFilterChanges == 3

(***************************************************************************)
(* Numbers, optional fields and small helpers                              *)
(***************************************************************************)
Min(a, b) == IF a < b THEN a ELSE b

Max(a, b) == IF a > b THEN a ELSE b

RECURSIVE SumSeq(_)
SumSeq(s) == IF s = <<>> THEN 0 ELSE Head(s) + SumSeq(Tail(s))

\* a custom field that the work item does not carry
Undefined == [defined |-> FALSE, val |-> 0]

\* a custom field holding the number n
Num(n) == [defined |-> TRUE, val |-> n]

\* variant: an absent field defaults to 1
OrZero_absentIsOne(f) == IF f.defined THEN f.val ELSE 1

\* (field as number) || 0 : undefined and 0 are falsy, any other number is kept
OrZero(f) == IF f.defined /\ f.val # 0 THEN f.val ELSE 0

(***************************************************************************)
(* The work items handed to the planner                                    *)
(***************************************************************************)
NoDev == "none"

Developers == {"ana", "bob"}

COMPLETED_STATES == {"Done", "Closed", "Resolved", "Removed"}

ItemIds == 1..3

PendingValues == {Undefined, Num(-1), Num(0), Num(1), Num(2), Num(3), Num(4), Num(5), Num(6)}

LoadValues == {Undefined, Num(-1), Num(0), Num(1), Num(2), Num(3), Num(5)}

\* handEdited: the developers whose plan has differed from their auto-schedule
VARIABLES workItems, selectedDeveloper, view, plan, last, edits, handEdited

\* state of the task analysis view while it builds its hierarchy map
VARIABLES allItems, rootItems, traversalMemo, idMap, titleMap, status, resolved

plannerVars == <<workItems, selectedDeveloper, view, plan, last, edits, handEdited>>

resolverVars == <<allItems, rootItems, traversalMemo, idMap, titleMap, status, resolved>>

\* state of the task analysis view around its summaries: the filter props,
\* the stored summaries, the batches of lookups in flight
\* overlapped: the filter has changed while a batch of lookups was in flight
VARIABLES selectedDevs, selectedTag, taskSummaries, isSummariesLoading, batches, changes, settled,
          overlapped

\* state of the profitability calculator; fetches and timers hold the pending
\* getDescendantLineas calls and setTimeout callbacks, sinceCalculate tells
\* that no cost, project or reset came after the last Calculate
VARIABLES selectedProject, personnel, personnelCosts, results, isLoadingPersonnel, isCalculating,
          fetches, timers, sinceCalculate, userActions

profitVars == <<selectedProject, personnel, personnelCosts, results, isLoadingPersonnel, isCalculating,
                fetches, timers, sinceCalculate, userActions>>

metricsVars == <<selectedDevs, selectedTag, taskSummaries, isSummariesLoading, batches, changes, settled,
                 overlapped>>

vars == <<plannerVars, resolverVars, metricsVars, profitVars>>

NoTag == "none"

NoBatch == [items |-> {}, results |-> << >>]

\* the analysis view has no filter and no lookup
NoProject == 0

NoResult == [shown |-> FALSE]

ProfitIdle ==
    /\ selectedProject = NoProject
    /\ personnel = << >>
    /\ personnelCosts = << >>
    /\ results = NoResult
    /\ isLoadingPersonnel = FALSE
    /\ isCalculating = FALSE
    /\ fetches = << >>
    /\ timers = << >>
    /\ sinceCalculate = FALSE
    /\ userActions = 0

MetricsIdle ==
    /\ selectedDevs = {}
    /\ selectedTag = NoTag
    /\ taskSummaries = << >>
    /\ isSummariesLoading = FALSE
    /\ batches = << >>
    /\ changes = 0
    /\ settled = [op |-> "init", batch |-> NoBatch]
    /\ overlapped = FALSE

\* the planner runs with no hierarchy map under construction
ResolverIdle ==
    /\ allItems = << >> /\ rootItems = << >>
    /\ traversalMemo = << >> /\ idMap = << >> /\ titleMap = << >>
    /\ status = "idle"
    /\ resolved = [item |-> 0, root |-> 0]

\* availableDevs: the assignees that occur in workItems
availableDevs == {workItems[i].assignedTo : i \in {j \in ItemIds : workItems[j].assignedTo # NoDev}}

\* devProjects: the selected developer's items that are not in a completed state
devProjectsOf(dev) ==
    IF dev = NoDev THEN {}
    ELSE {i \in ItemIds : /\ workItems[i].assignedTo = dev
                          /\ workItems[i].state \notin COMPLETED_STATES}

devProjects == devProjectsOf(selectedDeveloper)

(***************************************************************************)
(* Auto-planning effect                                                    *)
(***************************************************************************)
\* variant: the loop stops when less than a full week is left
RECURSIVE projectScheduleLoop_dropsRemainder(_, _)
projectScheduleLoop_dropsRemainder(pendingHours, weeklyLoad) ==
    IF pendingHours >= weeklyLoad
    THEN <<weeklyLoad>> \o projectScheduleLoop_dropsRemainder(pendingHours - weeklyLoad, weeklyLoad)
    ELSE <<>>

\* the while loop that fills weeks greedily
RECURSIVE projectScheduleLoop(_, _)
projectScheduleLoop(pendingHours, weeklyLoad) ==
    IF pendingHours > 0
    THEN LET hoursThisWeek == Min(pendingHours, weeklyLoad)
         IN  <<hoursThisWeek>> \o projectScheduleLoop(pendingHours - hoursThisWeek, weeklyLoad)
    ELSE <<>>

\* the schedule the effect stores for one project
projectSchedule(project) ==
    LET pendingHours == OrZero(project.Hspendientes)
        weeklyLoad   == OrZero(project.Cargasemanal)
    IN  IF pendingHours > 0 /\ weeklyLoad > 0
        THEN projectScheduleLoop(pendingHours, weeklyLoad)
        ELSE <<>>

\* the plan the effect builds for a developer
AutoPlan(dev) == [p \in devProjectsOf(dev) |-> projectSchedule(workItems[p])]

(***************************************************************************)
(* Text of an hours cell: strings are sequences of one-character strings   *)
(***************************************************************************)
Digits == {"0", "1", "2", "3", "4", "5", "6", "7", "8", "9"}

DigitVal(c) ==
    CASE c = "0" -> 0 [] c = "1" -> 1 [] c = "2" -> 2 [] c = "3" -> 3 [] c = "4" -> 4
      [] c = "5" -> 5 [] c = "6" -> 6 [] c = "7" -> 7 [] c = "8" -> 8 [] c = "9" -> 9

Drop(s, n) == SubSeq(s, n + 1, Len(s))

\* number of digits at the start of s
RECURSIVE LeadingDigits(_)
LeadingDigits(s) ==
    IF s # <<>> /\ Head(s) \in Digits THEN 1 + LeadingDigits(Tail(s)) ELSE 0

\* value of a sequence of digits, base 10
RECURSIVE DigitsValue(_)
DigitsValue(s) ==
    IF s = <<>> THEN 0 ELSE 10 * DigitsValue(SubSeq(s, 1, Len(s) - 1)) + DigitVal(s[Len(s)])

RECURSIVE StripLeadingSpace(_)
StripLeadingSpace(s) ==
    IF s # <<>> /\ Head(s) = " " THEN StripLeadingSpace(Tail(s)) ELSE s

\* a number, or NaN
NaN == [nan |-> TRUE, val |-> 0]

Number(n) == [nan |-> FALSE, val |-> n]

\* parseInt(hoursStr, 10): leading blanks, an optional sign, then the longest
\* run of digits; NaN when there is no digit
ParseInt(hoursStr) ==
    LET s1     == StripLeadingSpace(hoursStr)
        signed == s1 # <<>> /\ Head(s1) \in {"-", "+"}
        s2     == IF signed THEN Tail(s1) ELSE s1
        n      == LeadingDigits(s2)
        sign   == IF signed /\ Head(s1) = "-" THEN -1 ELSE 1
    IN  IF n = 0 THEN NaN ELSE Number(sign * DigitsValue(SubSeq(s2, 1, n)))

\* the text is a valid floating-point number: -? (digits | digits? . digits) ([eE] [-+]? digits)?
IsNumberText(text) ==
    LET s1   == IF text # <<>> /\ Head(text) = "-" THEN Tail(text) ELSE text
        n1   == LeadingDigits(s1)
        s2   == Drop(s1, n1)
        dot  == s2 # <<>> /\ Head(s2) = "."
        n2   == IF dot THEN LeadingDigits(Tail(s2)) ELSE 0
        s3   == IF dot THEN Drop(s2, 1 + n2) ELSE s2
        exp  == s3 # <<>> /\ Head(s3) \in {"e", "E"}
        s4   == IF exp THEN Tail(s3) ELSE s3
        s5   == IF exp /\ s4 # <<>> /\ Head(s4) \in {"-", "+"} THEN Tail(s4) ELSE s4
        n3   == IF exp THEN LeadingDigits(s5) ELSE 0
        rest == IF exp THEN Drop(s5, n3) ELSE s3
    IN  /\ (IF dot THEN n2 >= 1 ELSE n1 >= 1)
        /\ (exp => n3 >= 1)
        /\ rest = <<>>

\* e.target.value of <input type="number">: the typed text when it is a
\* valid number, the empty string otherwise
InputValue(typed) == IF IsNumberText(typed) THEN typed ELSE <<>>

\* what a user may type into a cell
TypedTexts ==
    { <<>>, <<"1", "x">>, <<"-", "3">>, <<"1">>, <<"3">>, <<"1", ".", "7">> }

\* variant: negative numbers are kept
validatedHours_keepsNegative(hoursStr) ==
    LET newHours == ParseInt(hoursStr)
    IN  IF newHours.nan THEN 0 ELSE newHours.val

\* validatedHours: NaN and negative numbers become 0
validatedHours(hoursStr) ==
    LET newHours == ParseInt(hoursStr)
    IN  IF newHours.nan \/ newHours.val < 0 THEN 0 ELSE newHours.val

(***************************************************************************)
(* handleHoursChange                                                       *)
(***************************************************************************)
\* variant: the zeros are put in front of the schedule
RECURSIVE PadSchedule_unshift(_, _)
PadSchedule_unshift(schedule, weekIndex) ==
    IF Len(schedule) <= weekIndex THEN PadSchedule_unshift(<<0>> \o schedule, weekIndex) ELSE schedule

\* while (currentSchedule.length <= weekIndex) currentSchedule.push(0)
RECURSIVE PadSchedule(_, _)
PadSchedule(schedule, weekIndex) ==
    IF Len(schedule) <= weekIndex THEN PadSchedule(Append(schedule, 0), weekIndex) ELSE schedule

\* variant: the loop stops when less than a full week is left
RECURSIVE rebalancedTailLoop_dropsRemainder(_, _)
rebalancedTailLoop_dropsRemainder(remainingToPlan, weeklyLoad) ==
    IF remainingToPlan >= weeklyLoad
    THEN <<weeklyLoad>> \o rebalancedTailLoop_dropsRemainder(remainingToPlan - weeklyLoad, weeklyLoad)
    ELSE <<>>

\* variant: the week that is not full comes first
RECURSIVE rebalancedTailLoop_remainderFirst(_, _)
rebalancedTailLoop_remainderFirst(remainingToPlan, weeklyLoad) ==
    IF remainingToPlan > 0
    THEN LET hoursForWeek == IF remainingToPlan % weeklyLoad # 0
                             THEN remainingToPlan % weeklyLoad ELSE weeklyLoad
         IN  <<hoursForWeek>> \o rebalancedTailLoop_remainderFirst(remainingToPlan - hoursForWeek, weeklyLoad)
    ELSE <<>>

\* the while loop that fills the weeks after the edited one
RECURSIVE rebalancedTailLoop(_, _)
rebalancedTailLoop(remainingToPlan, weeklyLoad) ==
    IF remainingToPlan > 0
    THEN LET hoursForWeek == Min(remainingToPlan, weeklyLoad)
         IN  <<hoursForWeek>> \o rebalancedTailLoop(remainingToPlan - hoursForWeek, weeklyLoad)
    ELSE <<>>

\* variant: without weekly load the remaining hours go into one week
rebalancedTail_zeroLoadOneWeek(remainingToPlan, weeklyLoad) ==
    IF remainingToPlan > 0
    THEN IF weeklyLoad > 0 THEN rebalancedTailLoop(remainingToPlan, weeklyLoad) ELSE <<remainingToPlan>>
    ELSE <<>>

\* the tail is filled only when hours remain and the project has a weekly load
rebalancedTail(remainingToPlan, weeklyLoad) ==
    IF remainingToPlan > 0 /\ weeklyLoad > 0
    THEN rebalancedTailLoop(remainingToPlan, weeklyLoad)
    ELSE <<>>

\* variant: at most one trailing zero is removed
TrimTrailingZeros_popsOnce(schedule) ==
    IF Len(schedule) > 0 /\ schedule[Len(schedule)] = 0
    THEN SubSeq(schedule, 1, Len(schedule) - 1)
    ELSE schedule

\* while (last entry === 0) finalSchedule.pop()
RECURSIVE TrimTrailingZeros(_)
TrimTrailingZeros(schedule) ==
    IF Len(schedule) > 0 /\ schedule[Len(schedule)] = 0
    THEN TrimTrailingZeros(SubSeq(schedule, 1, Len(schedule) - 1))
    ELSE schedule

\* variant: only the edited week is counted as planned
totalPlannedSoFar_onlyEditedWeek(currentSchedule, weekIndex) == currentSchedule[weekIndex + 1]

\* week indices are 0-based in the program; sequences are 1-based here
totalPlannedSoFar(currentSchedule, weekIndex) == SumSeq(SubSeq(currentSchedule, 1, weekIndex + 1))

\* variant: the new tail is appended to the whole padded schedule
finalSchedule_keepsOldTail(project, oldSchedule, weekIndex, hours) ==
    LET originalPending == OrZero(project.Hspendientes)
        weeklyLoad      == OrZero(project.Cargasemanal)
        padded          == PadSchedule(oldSchedule, weekIndex)
        currentSchedule == [padded EXCEPT ![weekIndex + 1] = hours]
        remainingToPlan == originalPending - totalPlannedSoFar(currentSchedule, weekIndex)
    IN  TrimTrailingZeros(currentSchedule \o rebalancedTail(remainingToPlan, weeklyLoad))

\* variant: the entered hours are added to the cell
finalSchedule_addsHours(project, oldSchedule, weekIndex, hours) ==
    LET originalPending == OrZero(project.Hspendientes)
        weeklyLoad      == OrZero(project.Cargasemanal)
        padded          == PadSchedule(oldSchedule, weekIndex)
        currentSchedule == [padded EXCEPT ![weekIndex + 1] = @ + hours]
        remainingToPlan == originalPending - totalPlannedSoFar(currentSchedule, weekIndex)
    IN  TrimTrailingZeros(SubSeq(currentSchedule, 1, weekIndex + 1)
                            \o rebalancedTail(remainingToPlan, weeklyLoad))

\* the schedule stored for the edited project
finalSchedule(project, oldSchedule, weekIndex, hours) ==
    LET originalPending == OrZero(project.Hspendientes)
        weeklyLoad      == OrZero(project.Cargasemanal)
        padded          == PadSchedule(oldSchedule, weekIndex)
        currentSchedule == [padded EXCEPT ![weekIndex + 1] = hours]
        remainingToPlan == originalPending - totalPlannedSoFar(currentSchedule, weekIndex)
    IN  TrimTrailingZeros(SubSeq(currentSchedule, 1, weekIndex + 1)
                            \o rebalancedTail(remainingToPlan, weeklyLoad))

\* variant: the new plan starts from an empty map
ApplyEdit_freshMap(currentPlan, projectId, weekIndex, hoursStr) ==
    IF projectId \notin devProjects THEN currentPlan
    ELSE LET oldSchedule == IF projectId \in DOMAIN currentPlan THEN currentPlan[projectId] ELSE <<>>
             new == finalSchedule(workItems[projectId], oldSchedule, weekIndex, validatedHours(hoursStr))
         IN  [p \in {projectId} |-> new]

\* variant: the project is looked up among all work items
ApplyEdit_anyProject(currentPlan, projectId, weekIndex, hoursStr) ==
    IF projectId \notin DOMAIN workItems THEN currentPlan
    ELSE LET oldSchedule == IF projectId \in DOMAIN currentPlan THEN currentPlan[projectId] ELSE <<>>
             new == finalSchedule(workItems[projectId], oldSchedule, weekIndex, validatedHours(hoursStr))
         IN  [p \in (DOMAIN currentPlan) \cup {projectId} |->
                 IF p = projectId THEN new ELSE currentPlan[p]]

\* the setPlan updater of handleHoursChange
ApplyEdit(currentPlan, projectId, weekIndex, hoursStr) ==
    IF projectId \notin devProjects THEN currentPlan
    ELSE LET oldSchedule == IF projectId \in DOMAIN currentPlan THEN currentPlan[projectId] ELSE <<>>
             new == finalSchedule(workItems[projectId], oldSchedule, weekIndex, validatedHours(hoursStr))
         IN  [p \in (DOMAIN currentPlan) \cup {projectId} |->
                 IF p = projectId THEN new ELSE currentPlan[p]]

\* maxWeeks: the number of week columns shown
RECURSIVE MaxOfSet(_)
MaxOfSet(S) == IF S = {} THEN 0 ELSE LET x == CHOOSE y \in S : TRUE IN Max(x, MaxOfSet(S \ {x}))

maxWeeks == Max(4, MaxOfSet({Len(plan[p]) : p \in DOMAIN plan}))

(***************************************************************************)
(* Projection of the plan on the calendar: finalCalculatedPlan             *)
(***************************************************************************)
\* schedule[i] || 0
hoursInWeek(schedule, i) == IF i < Len(schedule) THEN OrZero(Num(schedule[i + 1])) ELSE 0

\* the projects pushed to projectsInWeek for week i
projectsInWeek(i) == {p \in DOMAIN plan : hoursInWeek(plan[p], i) > 0 /\ p \in devProjects}

RECURSIVE SumHours(_, _)
SumHours(projects, i) ==
    IF projects = {} THEN 0
    ELSE LET p == CHOOSE q \in projects : TRUE
         IN  hoursInWeek(plan[p], i) + SumHours(projects \ {p}, i)

\* variant: the total is assigned, not accumulated, so it is the hours of
\* the last project of the week
totalHoursInWeek_lastOnly(i) ==
    IF projectsInWeek(i) = {} THEN 0
    ELSE hoursInWeek(plan[CHOOSE p \in projectsInWeek(i) : \A q \in projectsInWeek(i) : q <= p], i)

\* totalHoursInWeek after the forEach of week i
totalHoursInWeek(i) == SumHours(projectsInWeek(i), i)

\* the row of week i
CalculatedWeek(i) ==
    [weekIndex |-> i,
     projects |-> [p \in projectsInWeek(i) |-> hoursInWeek(plan[p], i)],
     totalHours |-> totalHoursInWeek(i)]

keepsRow(week) == DOMAIN week.projects # {} \/ week.weekIndex < 4

\* variant: only weeks with hours are kept
finalCalculatedPlan_noFloor ==
    LET hasHours(week) == DOMAIN week.projects # {}
    IN  SelectSeq([k \in 1..maxWeeks |-> CalculatedWeek(k - 1)], hasHours)

\* weeksData: the rows of weeks 0..maxWeeks-1 that have a project or lie below 4
finalCalculatedPlan == SelectSeq([k \in 1..maxWeeks |-> CalculatedWeek(k - 1)], keepsRow)

(***************************************************************************)
(* State machine of the planner                                            *)
(***************************************************************************)
NoEdit == [projectId |-> 0, weekIndex |-> 0, typed |-> <<>>]

WorkItem(dev, st, pending, load) ==
    [assignedTo |-> dev, state |-> st, Hspendientes |-> pending, Cargasemanal |-> load]

\* the pending-hours and weekly-load fields of the first project in the edit runs
EditedFieldPairs ==
    { <<Num(5), Num(2)>>, <<Num(3), Num(0)>>, <<Undefined, Num(2)>>, <<Num(3), Undefined>>, <<Num(-1), Num(5)>> }

\* the collections of work items the planner is started with: two projects of
\* one developer (the second possibly completed) and one of another
InitialWorkItems ==
    { <<WorkItem("ana", "Active", f[1], f[2]),
        WorkItem("ana", st, Num(4), Num(2)),
        WorkItem("bob", "Active", Num(3), Num(5))>> :
      f \in EditedFieldPairs, st \in {"Active", "Done"} }

Init ==
    /\ workItems \in InitialWorkItems
    /\ selectedDeveloper = NoDev
    /\ view = "planner"
    /\ plan = << >>
    /\ last = [op |-> "init", edit |-> NoEdit, prevPlan |-> << >>, repeat |-> FALSE]
    /\ edits = 0
    /\ handEdited = {}
    /\ ResolverIdle
    /\ MetricsIdle
    /\ ProfitIdle

\* variant: the effect adds the new developer's schedules to the map it finds
HandleDeveloperChange_keepsOldEntries(dev) ==
    /\ view = "planner"
    /\ dev # selectedDeveloper
    /\ selectedDeveloper' = dev
    /\ view' = "planner"
    /\ plan' = [p \in DOMAIN plan \cup devProjectsOf(dev) |->
                  IF p \in DOMAIN plan THEN plan[p] ELSE projectSchedule(workItems[p])]
    /\ last' = [op |-> "select", edit |-> NoEdit, prevPlan |-> plan, repeat |-> FALSE]
    /\ edits' = 0
    /\ UNCHANGED <<workItems, handEdited, resolverVars, metricsVars, profitVars>>

\* the developer selector (shown in the planner view) changes:
\* handleDeveloperChange, then the auto-planning effect
HandleDeveloperChange(dev) ==
    /\ view = "planner"
    /\ dev # selectedDeveloper
    /\ selectedDeveloper' = dev
    /\ view' = "planner"
    /\ plan' = AutoPlan(dev)
    /\ last' = [op |-> "select", edit |-> NoEdit, prevPlan |-> plan, repeat |-> FALSE]
    /\ edits' = 0
    /\ UNCHANGED <<workItems, handEdited, resolverVars, metricsVars, profitVars>>

\* an hours cell changes: handleHoursChange
HandleHoursChange(projectId, weekIndex, typed) ==
    /\ selectedDeveloper # NoDev
    /\ view = "planner"
    /\ weekIndex < maxWeeks
    /\ edits < MaxEdits
    /\ edits' = edits + 1
    /\ plan' = ApplyEdit(plan, projectId, weekIndex, InputValue(typed))
    /\ last' = [op |-> "edit",
                edit |-> [projectId |-> projectId, weekIndex |-> weekIndex, typed |-> typed],
                prevPlan |-> plan,
                repeat |-> /\ last.op = "edit"
                           /\ last.edit.projectId = projectId
                           /\ last.edit.weekIndex = weekIndex
                           /\ validatedHours(InputValue(last.edit.typed))
                                = validatedHours(InputValue(typed))]
    /\ handEdited' = IF plan' # AutoPlan(selectedDeveloper)
                     THEN handEdited \cup {selectedDeveloper} ELSE handEdited
    /\ UNCHANGED <<workItems, selectedDeveloper, view, resolverVars, metricsVars, profitVars>>

\* "Procesar Plan": enabled once a developer is selected (the projection
\* always has its first four weeks)
ShowSummary ==
    /\ view = "planner"
    /\ selectedDeveloper # NoDev
    /\ view' = "summary"
    /\ UNCHANGED <<workItems, selectedDeveloper, plan, last, edits, handEdited, resolverVars, metricsVars, profitVars>>

\* onBackToPlanner of the summary
BackToPlanner ==
    /\ view = "summary"
    /\ view' = "planner"
    /\ UNCHANGED <<workItems, selectedDeveloper, plan, last, edits, handEdited, resolverVars, metricsVars, profitVars>>

SelectStep == \E dev \in availableDevs : HandleDeveloperChange(dev)

EditStep ==
    \E projectId \in ItemIds, weekIndex \in 0..MaxWeekIndex, typed \in TypedTexts :
        HandleHoursChange(projectId, weekIndex, typed)

Next == SelectStep \/ EditStep \/ ShowSummary \/ BackToPlanner

Spec == Init /\ [][Next]_vars

(***************************************************************************)
(* The auto-planning effect alone, over a wide range of project fields     *)
(***************************************************************************)
AutoWorkItems ==
    { <<WorkItem("ana", "Active", pending, load),
        WorkItem("ana", st, Num(4), Num(2)),
        WorkItem("bob", "Active", Num(3), Num(5))>> :
      pending \in PendingValues, load \in LoadValues, st \in {"Active", "Done"} }

InitAuto ==
    /\ workItems \in AutoWorkItems
    /\ selectedDeveloper = NoDev
    /\ view = "planner"
    /\ plan = << >>
    /\ last = [op |-> "init", edit |-> NoEdit, prevPlan |-> << >>, repeat |-> FALSE]
    /\ edits = 0
    /\ handEdited = {}
    /\ ResolverIdle
    /\ MetricsIdle
    /\ ProfitIdle

NextAuto == SelectStep \/ ShowSummary \/ BackToPlanner

SpecAuto == InitAuto /\ [][NextAuto]_vars

(***************************************************************************)
(* The planner with a long schedule and edits of late weeks                *)
(***************************************************************************)
\* a project of six weeks and a project of one week for one developer
CalendarWorkItems ==
    { <<WorkItem("ana", "Active", Num(6), Num(1)),
        WorkItem("ana", "Active", Num(2), Num(2)),
        WorkItem("bob", "Active", Num(3), Num(5))>> }

InitCalendar ==
    /\ workItems \in CalendarWorkItems
    /\ selectedDeveloper = NoDev
    /\ view = "planner"
    /\ plan = << >>
    /\ last = [op |-> "init", edit |-> NoEdit, prevPlan |-> << >>, repeat |-> FALSE]
    /\ edits = 0
    /\ handEdited = {}
    /\ ResolverIdle
    /\ MetricsIdle
    /\ ProfitIdle

CalendarTexts == {<<"0">>, <<"3">>}

CalendarEditStep ==
    \E projectId \in ItemIds, weekIndex \in 0..MaxCalendarWeek, typed \in CalendarTexts :
        /\ edits < MaxCalendarEdits
        /\ HandleHoursChange(projectId, weekIndex, typed)

NextCalendar == SelectStep \/ CalendarEditStep \/ ShowSummary \/ BackToPlanner

SpecCalendar == InitCalendar /\ [][NextCalendar]_vars

(***************************************************************************)
(* Vocabulary of the properties                                            *)
(***************************************************************************)
\* the number a field stands for: an absent field counts as 0
FieldNumber(f) == IF f.defined THEN f.val ELSE 0

PendingOf(p) == FieldNumber(workItems[p].Hspendientes)

CapacityOf(p) == FieldNumber(workItems[p].Cargasemanal)

CeilDiv(a, b) == (a + b - 1) \div b

\* entry of a schedule at a 0-based week, 0 where the schedule does not reach
WeekAt(schedule, i) == IF i < Len(schedule) THEN schedule[i + 1] ELSE 0

\* the plan was just produced by the auto-planning effect
AutoPlanned == last.op = "select"

\* C1: after auto-scheduling, every project with pending >= 0 and weekly
\* capacity > 0 has a schedule that sums to pending and has
\* ceil(pending / capacity) weeks (none when pending = 0)
C1_AutoSumAndLength ==
    AutoPlanned =>
        \A p \in devProjects :
            (PendingOf(p) >= 0 /\ CapacityOf(p) > 0) =>
                /\ p \in DOMAIN plan
                /\ SumSeq(plan[p]) = PendingOf(p)
                /\ Len(plan[p]) = CeilDiv(PendingOf(p), CapacityOf(p))

\* a project whose pending hours are not a multiple of its capacity was scheduled over 3 weeks
C1_Witness ==
    /\ AutoPlanned
    /\ \E p \in devProjects :
           /\ CapacityOf(p) > 0 /\ PendingOf(p) > 2 * CapacityOf(p)
           /\ PendingOf(p) % CapacityOf(p) # 0
           /\ Len(plan[p]) = 3

\* C2: after auto-scheduling, a project whose pending hours or weekly
\* capacity is absent, zero or negative has the empty schedule
C2_AutoEmpty ==
    AutoPlanned =>
        \A p \in devProjects :
            (PendingOf(p) <= 0 \/ CapacityOf(p) <= 0) =>
                /\ p \in DOMAIN plan
                /\ plan[p] = << >>

\* pending hours with capacity 0, and pending hours with no capacity field, were left unscheduled
C2_Witness ==
    /\ AutoPlanned
    /\ \E p \in devProjects :
           /\ PendingOf(p) > 0
           /\ workItems[p].Cargasemanal \in {Num(0), Undefined}
           /\ plan[p] = << >>

(***************************************************************************)
(* Vocabulary of the properties of an edit                                 *)
(***************************************************************************)
EditedProject == last.edit.projectId

EditedWeek == last.edit.weekIndex

\* the last step was an edit of a project of the selected developer
EditApplied == last.op = "edit" /\ EditedProject \in devProjects

\* the value the edit wrote into the cell
ClampedHours == validatedHours(InputValue(last.edit.typed))

\* the schedule of a project in a plan, empty when the plan has none
ScheduleIn(aPlan, p) == IF p \in DOMAIN aPlan THEN aPlan[p] ELSE << >>

\* weeks 0..weekIndex of the schedule before the edit, zero-padded, with the
\* edited week overwritten
PrefixAfterOverwrite ==
    [i \in 1..(EditedWeek + 1) |->
        IF i = EditedWeek + 1 THEN ClampedHours
        ELSE WeekAt(ScheduleIn(last.prevPlan, EditedProject), i - 1)]

PlannedThroughEdit == SumSeq(PrefixAfterOverwrite)

OriginalPendingHours == PendingOf(EditedProject)

Remaining == OriginalPendingHours - PlannedThroughEdit

\* the greedy schedule of an amount: full weeks, then the remainder
GreedySchedule(amount, capacity) ==
    [i \in 1..CeilDiv(amount, capacity) |->
        IF i < CeilDiv(amount, capacity) THEN capacity
        ELSE amount - (CeilDiv(amount, capacity) - 1) * capacity]

\* C3 as stated: after any edit, the edited schedule sums to
\* plannedThroughEdit + max(0, remaining) = max(plannedThroughEdit, originalPendingHours)
C3_SumAfterAnyEdit ==
    EditApplied =>
        /\ SumSeq(plan[EditedProject]) = PlannedThroughEdit + Max(0, Remaining)
        /\ SumSeq(plan[EditedProject]) = Max(PlannedThroughEdit, OriginalPendingHours)

\* C3, amended: the sum is plannedThroughEdit + max(0, remaining)
\* = max(plannedThroughEdit, originalPendingHours) when the weekly capacity is
\* positive or remaining <= 0; with capacity <= 0 and remaining > 0 the sum is
\* plannedThroughEdit
C3_SumAfterEdit ==
    EditApplied =>
        IF CapacityOf(EditedProject) > 0 \/ Remaining <= 0
        THEN /\ SumSeq(plan[EditedProject]) = PlannedThroughEdit + Max(0, Remaining)
             /\ SumSeq(plan[EditedProject]) = Max(PlannedThroughEdit, OriginalPendingHours)
        ELSE SumSeq(plan[EditedProject]) = PlannedThroughEdit

\* an edit changed a schedule and left hours to place in later weeks
C3_Witness ==
    /\ EditApplied
    /\ CapacityOf(EditedProject) > 0
    /\ Remaining > 0
    /\ PlannedThroughEdit > 0
    /\ plan[EditedProject] # ScheduleIn(last.prevPlan, EditedProject)

\* C4: when an edit leaves remaining > 0 and the weekly capacity is positive,
\* the new schedule is weeks 0..weekIndex (with the overwritten value)
\* followed by the greedy schedule of (remaining, capacity); its total is
\* originalPendingHours
C4_FreshGreedyTail ==
    (EditApplied /\ Remaining > 0 /\ CapacityOf(EditedProject) > 0) =>
        /\ plan[EditedProject] =
               PrefixAfterOverwrite \o GreedySchedule(Remaining, CapacityOf(EditedProject))
        /\ SumSeq(plan[EditedProject]) = OriginalPendingHours

\* an edit replaced a tail of two weeks by a different tail
C4_Witness ==
    /\ EditApplied /\ Remaining > 0 /\ CapacityOf(EditedProject) > 0
    /\ Len(ScheduleIn(last.prevPlan, EditedProject)) > EditedWeek + 2
    /\ Len(plan[EditedProject]) > EditedWeek + 1
    /\ SubSeq(plan[EditedProject], EditedWeek + 2, Len(plan[EditedProject]))
         # SubSeq(ScheduleIn(last.prevPlan, EditedProject), EditedWeek + 2,
                  Len(ScheduleIn(last.prevPlan, EditedProject)))

\* C5: when the hours planned through the edited week reach or exceed
\* originalPendingHours, the new schedule has no week after weekIndex,
\* whatever the capacity, and the edited week holds the entered value
C5_OverAllocationTruncates ==
    (EditApplied /\ Remaining <= 0) =>
        /\ Len(plan[EditedProject]) <= EditedWeek + 1
        /\ WeekAt(plan[EditedProject], EditedWeek) = ClampedHours
        /\ \A i \in 0..EditedWeek :
               WeekAt(plan[EditedProject], i) = PrefixAfterOverwrite[i + 1]

\* an over-allocating edit of a project with capacity cut weeks off its schedule
C5_Witness ==
    /\ EditApplied /\ Remaining < 0
    /\ CapacityOf(EditedProject) > 0
    /\ Len(ScheduleIn(last.prevPlan, EditedProject)) > EditedWeek + 1
    /\ Len(plan[EditedProject]) = EditedWeek + 1

\* C6: every schedule of the plan is empty or ends in a non-zero entry, and
\* the trimmed schedule an edit stores has the sum of the untrimmed one
C6_NoTrailingZero ==
    /\ \A p \in DOMAIN plan : plan[p] = << >> \/ plan[p][Len(plan[p])] # 0
    /\ EditApplied =>
           SumSeq(plan[EditedProject]) =
               PlannedThroughEdit
                 + SumSeq(rebalancedTail(Remaining, OrZero(workItems[EditedProject].Cargasemanal)))

\* an edit of a week to 0 left two zero weeks at the end, both of which were trimmed
C6_Witness ==
    /\ EditApplied
    /\ EditedWeek >= 1
    /\ ClampedHours = 0
    /\ PrefixAfterOverwrite[EditedWeek] = 0
    /\ Len(plan[EditedProject]) < EditedWeek

\* C7: an edit leaves the schedule of every other project unchanged
C7_OtherProjectsUntouched ==
    last.op = "edit" =>
        /\ DOMAIN plan \ {EditedProject} = DOMAIN last.prevPlan \ {EditedProject}
        /\ \A q \in DOMAIN last.prevPlan \ {EditedProject} : plan[q] = last.prevPlan[q]

\* an edit changed one schedule while another project had hours planned
C7_Witness ==
    /\ EditApplied
    /\ plan[EditedProject] # ScheduleIn(last.prevPlan, EditedProject)
    /\ \E q \in DOMAIN last.prevPlan \ {EditedProject} : last.prevPlan[q] # << >>

\* the typed text is not a number
NonNumeric(typed) == ~IsNumberText(typed)

\* the typed text is a number with a minus sign
NegativeNumber(typed) == IsNumberText(typed) /\ Head(typed) = "-"

\* C8: an edit whose input is non-numeric (including empty) or negative
\* yields the plan that editing the same cell to 0 yields
C8_BadInputIsZero ==
    (last.op = "edit" /\ (NonNumeric(last.edit.typed) \/ NegativeNumber(last.edit.typed))) =>
        /\ plan = ApplyEdit(last.prevPlan, EditedProject, EditedWeek, <<"0">>)
        /\ EditedProject \in devProjects => WeekAt(plan[EditedProject], EditedWeek) = 0

\* a negative entry overwrote planned hours with 0
C8_Witness ==
    /\ EditApplied
    /\ NegativeNumber(last.edit.typed)
    /\ WeekAt(ScheduleIn(last.prevPlan, EditedProject), EditedWeek) > 0
    /\ WeekAt(plan[EditedProject], EditedWeek) = 0

(***************************************************************************)
(* Properties of a developer change and of the calendar projection         *)
(***************************************************************************)
\* the items of a developer that are not Done, Closed, Resolved or Removed
OpenProjectsOf(dev) ==
    {p \in DOMAIN workItems :
        /\ workItems[p].assignedTo = dev
        /\ workItems[p].state \notin {"Done", "Closed", "Resolved", "Removed"}}

\* the schedule a fresh auto-planning gives a project
FreshSchedule(p) ==
    IF PendingOf(p) > 0 /\ CapacityOf(p) > 0 THEN GreedySchedule(PendingOf(p), CapacityOf(p)) ELSE << >>

\* C18: after the selected developer changes, the plan is exactly the fresh
\* auto-schedule of the new developer's open projects; nothing of earlier
\* manual edits survives, also after switching away and back
C18_FreshPlanOnDeveloperChange ==
    AutoPlanned =>
        /\ DOMAIN plan = OpenProjectsOf(selectedDeveloper)
        /\ \A p \in DOMAIN plan : plan[p] = FreshSchedule(p)

\* the developer selected now had a hand-edited plan before, was left for
\* another developer whose plan was edited too, and is selected again
C18_Witness ==
    /\ AutoPlanned
    /\ selectedDeveloper \in handEdited
    /\ last.prevPlan # << >>
    /\ \E p \in DOMAIN last.prevPlan :
          /\ p \notin DOMAIN plan
          /\ last.prevPlan[p] # FreshSchedule(p)
    /\ \E p \in DOMAIN plan : plan[p] # << >>

\* the number of weeks the projection runs over
ProjectionLength == Max(4, MaxOfSet({Len(plan[p]) : p \in DOMAIN plan}))

\* the week indices that are to be displayed
DisplayedWeeks ==
    {i \in 0..(ProjectionLength - 1) : i < 4 \/ \E p \in DOMAIN plan : WeekAt(plan[p], i) # 0}

\* the week indices of the rows of a projection
RowIndices(rows) == {rows[k].weekIndex : k \in DOMAIN rows}

\* C19: with N = max(4, longest schedule), the rows of the projection are
\* exactly the weeks i < N with i < 4 or a non-zero allocation of some
\* project, one row per week in ascending order
C19_DisplayedWeeks ==
    selectedDeveloper # NoDev =>
        LET rows == finalCalculatedPlan
        IN  /\ RowIndices(rows) = DisplayedWeeks
            /\ Len(rows) = Cardinality(DisplayedWeeks)
            /\ \A k \in 1..(Len(rows) - 1) : rows[k].weekIndex < rows[k + 1].weekIndex

\* a week after the fourth is skipped because no project has hours in it,
\* a later week is displayed, and an empty week below 4 is displayed
C19_Witness ==
    LET rows == finalCalculatedPlan
    IN  /\ \E i \in 4..(ProjectionLength - 1) :
              /\ i \notin RowIndices(rows)
              /\ \E j \in RowIndices(rows) : j > i
        /\ \E k \in DOMAIN rows : rows[k].weekIndex < 4 /\ DOMAIN rows[k].projects = {}

\* sum over the projects of the plan of their entry at week i
RECURSIVE PlanTotalAt(_, _)
PlanTotalAt(projects, i) ==
    IF projects = {} THEN 0
    ELSE LET p == CHOOSE q \in projects : TRUE
         IN  WeekAt(plan[p], i) + PlanTotalAt(projects \ {p}, i)

\* sum of all schedules of the plan
RECURSIVE PlanTotal(_)
PlanTotal(projects) ==
    IF projects = {} THEN 0
    ELSE LET p == CHOOSE q \in projects : TRUE
         IN  SumSeq(plan[p]) + PlanTotal(projects \ {p})

\* C20: the total of each displayed week is the sum over every project of
\* the plan of its entry at that week (0 beyond its schedule), and the
\* totals of the displayed weeks add up to the sum of all schedules
C20_WeekTotals ==
    selectedDeveloper # NoDev =>
        LET rows == finalCalculatedPlan
        IN  /\ \A k \in DOMAIN rows : rows[k].totalHours = PlanTotalAt(DOMAIN plan, rows[k].weekIndex)
            /\ SumSeq([k \in DOMAIN rows |-> rows[k].totalHours]) = PlanTotal(DOMAIN plan)

\* two projects have hours in one week, one of them alone in another, and a
\* week after the fourth is not displayed
C20_Witness ==
    LET rows == finalCalculatedPlan
    IN  /\ \E k \in DOMAIN rows :
              /\ Cardinality(DOMAIN rows[k].projects) = 2
              /\ rows[k].totalHours >= 3
        /\ \E k \in DOMAIN rows : Cardinality(DOMAIN rows[k].projects) = 1
        /\ Len(rows) < ProjectionLength
        /\ PlanTotal(DOMAIN plan) > 0

(***************************************************************************)
(* Further properties of edits                                             *)
(***************************************************************************)
\* C21: an edit with the project, week and hours of the edit before it
\* leaves the plan as the first of the two made it
C21_EditIdempotent ==
    (last.op = "edit" /\ last.repeat) => plan = last.prevPlan

\* a repeated edit of a positive value, on a schedule that is not the
\* auto-schedule and whose tail the edit regenerates
C21_Witness ==
    /\ EditApplied /\ last.repeat
    /\ ClampedHours > 0
    /\ Remaining > 0 /\ CapacityOf(EditedProject) > 0
    /\ plan[EditedProject] # FreshSchedule(EditedProject)
    /\ Len(plan[EditedProject]) > EditedWeek + 1

\* C22: an edit of a project with weekly capacity 0 generates no tail: the
\* schedule is the zero-padded prefix through the edited week, and when that
\* sums to less than the original pending hours the rest stays unplaced;
\* before any edit such a project has the empty schedule
C22_ZeroCapacityNoTail ==
    /\ (EditApplied /\ CapacityOf(EditedProject) = 0) =>
          /\ Len(plan[EditedProject]) <= EditedWeek + 1
          /\ \A i \in 0..EditedWeek : WeekAt(plan[EditedProject], i) = PrefixAfterOverwrite[i + 1]
          /\ SumSeq(plan[EditedProject]) = PlannedThroughEdit
          /\ Remaining > 0 => SumSeq(plan[EditedProject]) < OriginalPendingHours
    /\ AutoPlanned => \A p \in DOMAIN plan : CapacityOf(p) = 0 => plan[p] = << >>

\* a second or later edit of a project with capacity 0 leaves part of its
\* pending hours unplaced
C22_Witness ==
    /\ EditApplied /\ CapacityOf(EditedProject) = 0
    /\ edits >= 2
    /\ ClampedHours > 0
    /\ Remaining > 0
    /\ SumSeq(plan[EditedProject]) > 0
    /\ SumSeq(plan[EditedProject]) < OriginalPendingHours

\* a sequence is a greedy fill with a capacity: every week but the last is
\* the capacity, the last is above 0 and at most the capacity
GreedyShape(seq, capacity) ==
    seq # << >> =>
        /\ \A i \in 1..(Len(seq) - 1) : seq[i] = capacity
        /\ seq[Len(seq)] > 0
        /\ seq[Len(seq)] <= capacity

\* the weeks of the edited schedule after the edited week
TailAfterEdit == SubSeq(plan[EditedProject], EditedWeek + 2, Len(plan[EditedProject]))

\* C23: every auto-generated schedule and every tail regenerated by an edit
\* is a greedy fill; when the amount placed is a multiple of the capacity
\* the last week is the capacity and no zero week follows
C23_GreedyShape ==
    /\ AutoPlanned =>
          \A p \in DOMAIN plan :
              /\ GreedyShape(plan[p], CapacityOf(p))
              /\ (plan[p] # << >> /\ PendingOf(p) % CapacityOf(p) = 0) =>
                     plan[p][Len(plan[p])] = CapacityOf(p)
    /\ EditApplied =>
          /\ GreedyShape(TailAfterEdit, CapacityOf(EditedProject))
          /\ (TailAfterEdit # << >> /\ Remaining % CapacityOf(EditedProject) = 0) =>
                 /\ TailAfterEdit[Len(TailAfterEdit)] = CapacityOf(EditedProject)
                 /\ Len(TailAfterEdit) * CapacityOf(EditedProject) = Remaining

\* an edit regenerated a tail of two full weeks for an amount that is a
\* multiple of the capacity
C23_Witness ==
    /\ EditApplied
    /\ Remaining > 0 /\ CapacityOf(EditedProject) > 1
    /\ Remaining % CapacityOf(EditedProject) = 0
    /\ Len(TailAfterEdit) = 2
    /\ TailAfterEdit # SubSeq(ScheduleIn(last.prevPlan, EditedProject), EditedWeek + 2,
                              Len(ScheduleIn(last.prevPlan, EditedProject)))

\* C26: while a developer is selected the keys of the plan are exactly that
\* developer's items that are not Done, Closed, Resolved or Removed, and an
\* edit that names any other project id leaves the plan unchanged
C26_PlanKeys ==
    /\ selectedDeveloper # NoDev => DOMAIN plan = OpenProjectsOf(selectedDeveloper)
    /\ (last.op = "edit" /\ EditedProject \notin OpenProjectsOf(selectedDeveloper)) =>
           plan = last.prevPlan

\* an edit with positive hours named a project of another developer or a
\* completed one, on a plan edited by hand that holds an empty schedule
C26_Witness ==
    /\ last.op = "edit"
    /\ EditedProject \notin OpenProjectsOf(selectedDeveloper)
    /\ ClampedHours > 0
    /\ selectedDeveloper \in handEdited
    /\ plan # AutoPlan(selectedDeveloper)
    /\ \E p \in DOMAIN plan : plan[p] = << >>

\* C27: an edit at week w with clamped value v leaves every earlier week as
\* it was, schedules read as zero-padded, and sets week w to v
C27_EarlierWeeksKept ==
    EditApplied =>
        /\ \A i \in 0..(EditedWeek - 1) :
               WeekAt(plan[EditedProject], i) = WeekAt(ScheduleIn(last.prevPlan, EditedProject), i)
        /\ WeekAt(plan[EditedProject], EditedWeek) = ClampedHours

\* an edit beyond the end of a non-empty schedule, with weeks in between
\* that had to be filled with zeros
C27_Witness ==
    /\ EditApplied
    /\ ClampedHours > 0
    /\ Len(ScheduleIn(last.prevPlan, EditedProject)) > 0
    /\ Len(ScheduleIn(last.prevPlan, EditedProject)) < EditedWeek
    /\ plan[EditedProject][1] > 0
    /\ plan[EditedProject][EditedWeek] = 0
    /\ Len(plan[EditedProject]) = EditedWeek + 1

(***************************************************************************)
(* Hierarchy resolver of the task analysis view                            *)
(***************************************************************************)
ROOT_TYPE == "Product Backlog Item"

ItemTypes == {ROOT_TYPE, "Task"}

ResolverIds == {1, 2, 3}

\* findRootPbi returns a work item or null; a work item is named by its id
Null == 0

\* System.Title of the item with the given id
TitleOf(id) == <<"title", id>>

\* the merge of two maps, the entries of the second map winning
Merge(f, g) == [k \in (DOMAIN f) \cup (DOMAIN g) |-> IF k \in DOMAIN g THEN g[k] ELSE f[k]]

\* map.set(key, value)
MapSet(map, key, value) == [k \in (DOMAIN map) \cup {key} |-> IF k = key THEN value ELSE map[k]]

\* allItemsById: allItems first, then rootItems over them
allItemsById == Merge(allItems, rootItems)

\* !parentId : the field is absent or 0
NoParent(item) == ~item.parent.defined \/ item.parent.val = 0

\* variant: an item without parent is its own root
RECURSIVE findRootPbi_orphanIsRoot(_, _, _)
findRootPbi_orphanIsRoot(memo, itemId, path) ==
    IF itemId \in DOMAIN memo
    THEN [root |-> memo[itemId], memo |-> memo, threw |-> FALSE]
    ELSE IF itemId \notin DOMAIN allItemsById
    THEN [root |-> Null, memo |-> MapSet(memo, itemId, Null), threw |-> FALSE]
    ELSE IF allItemsById[itemId].type = ROOT_TYPE \/ NoParent(allItemsById[itemId])
    THEN [root |-> itemId, memo |-> MapSet(memo, itemId, itemId), threw |-> FALSE]
    ELSE IF allItemsById[itemId].parent.val \in path \cup {itemId}
    THEN [root |-> Null, memo |-> memo, threw |-> TRUE]
    ELSE LET r == findRootPbi_orphanIsRoot(memo, allItemsById[itemId].parent.val, path \cup {itemId})
         IN  IF r.threw THEN r
             ELSE [root |-> r.root, memo |-> MapSet(r.memo, itemId, r.root), threw |-> FALSE]

\* variant: the parent is looked at before the type
RECURSIVE findRootPbi_parentFirst(_, _, _)
findRootPbi_parentFirst(memo, itemId, path) ==
    IF itemId \in DOMAIN memo
    THEN [root |-> memo[itemId], memo |-> memo, threw |-> FALSE]
    ELSE IF itemId \notin DOMAIN allItemsById
    THEN [root |-> Null, memo |-> MapSet(memo, itemId, Null), threw |-> FALSE]
    ELSE IF NoParent(allItemsById[itemId])
    THEN [root |-> Null, memo |-> MapSet(memo, itemId, Null), threw |-> FALSE]
    ELSE IF allItemsById[itemId].type = ROOT_TYPE
    THEN [root |-> itemId, memo |-> MapSet(memo, itemId, itemId), threw |-> FALSE]
    ELSE IF allItemsById[itemId].parent.val \in path \cup {itemId}
    THEN [root |-> Null, memo |-> memo, threw |-> TRUE]
    ELSE LET r == findRootPbi_parentFirst(memo, allItemsById[itemId].parent.val, path \cup {itemId})
         IN  IF r.threw THEN r
             ELSE [root |-> r.root, memo |-> MapSet(r.memo, itemId, r.root), threw |-> FALSE]

\* variant: an id that is not in the collection makes the lookup throw
RECURSIVE findRootPbi_missingThrows(_, _, _)
findRootPbi_missingThrows(memo, itemId, path) ==
    IF itemId \in DOMAIN memo
    THEN [root |-> memo[itemId], memo |-> memo, threw |-> FALSE]
    ELSE IF itemId \notin DOMAIN allItemsById
    THEN [root |-> Null, memo |-> memo, threw |-> TRUE]
    ELSE IF allItemsById[itemId].type = ROOT_TYPE
    THEN [root |-> itemId, memo |-> MapSet(memo, itemId, itemId), threw |-> FALSE]
    ELSE IF NoParent(allItemsById[itemId])
    THEN [root |-> Null, memo |-> MapSet(memo, itemId, Null), threw |-> FALSE]
    ELSE IF allItemsById[itemId].parent.val \in path \cup {itemId}
    THEN [root |-> Null, memo |-> memo, threw |-> TRUE]
    ELSE LET r == findRootPbi_missingThrows(memo, allItemsById[itemId].parent.val, path \cup {itemId})
         IN  IF r.threw THEN r
             ELSE [root |-> r.root, memo |-> MapSet(r.memo, itemId, r.root), threw |-> FALSE]

\* variant: after the recursion the item itself is memoized instead of the root found
RECURSIVE findRootPbi_memoizesSelf(_, _, _)
findRootPbi_memoizesSelf(memo, itemId, path) ==
    IF itemId \in DOMAIN memo
    THEN [root |-> memo[itemId], memo |-> memo, threw |-> FALSE]
    ELSE IF itemId \notin DOMAIN allItemsById
    THEN [root |-> Null, memo |-> MapSet(memo, itemId, Null), threw |-> FALSE]
    ELSE IF allItemsById[itemId].type = ROOT_TYPE
    THEN [root |-> itemId, memo |-> MapSet(memo, itemId, itemId), threw |-> FALSE]
    ELSE IF NoParent(allItemsById[itemId])
    THEN [root |-> Null, memo |-> MapSet(memo, itemId, Null), threw |-> FALSE]
    ELSE IF allItemsById[itemId].parent.val \in path \cup {itemId}
    THEN [root |-> Null, memo |-> memo, threw |-> TRUE]
    ELSE LET r == findRootPbi_memoizesSelf(memo, allItemsById[itemId].parent.val, path \cup {itemId})
         IN  IF r.threw THEN r
             ELSE [root |-> r.root, memo |-> MapSet(r.memo, itemId, itemId), threw |-> FALSE]

\* variant: a root-type item that has a parent is passed over
RECURSIVE findRootPbi_skipsRootWithParent(_, _, _)
findRootPbi_skipsRootWithParent(memo, itemId, path) ==
    IF itemId \in DOMAIN memo
    THEN [root |-> memo[itemId], memo |-> memo, threw |-> FALSE]
    ELSE IF itemId \notin DOMAIN allItemsById
    THEN [root |-> Null, memo |-> MapSet(memo, itemId, Null), threw |-> FALSE]
    ELSE IF allItemsById[itemId].type = ROOT_TYPE /\ NoParent(allItemsById[itemId])
    THEN [root |-> itemId, memo |-> MapSet(memo, itemId, itemId), threw |-> FALSE]
    ELSE IF NoParent(allItemsById[itemId])
    THEN [root |-> Null, memo |-> MapSet(memo, itemId, Null), threw |-> FALSE]
    ELSE IF allItemsById[itemId].parent.val \in path \cup {itemId}
    THEN [root |-> Null, memo |-> memo, threw |-> TRUE]
    ELSE LET r == findRootPbi_skipsRootWithParent(memo, allItemsById[itemId].parent.val, path \cup {itemId})
         IN  IF r.threw THEN r
             ELSE [root |-> r.root, memo |-> MapSet(r.memo, itemId, r.root), threw |-> FALSE]

\* findRootPbi(itemId) with the memo it starts from; path holds the ids whose
\* calls are on the stack. A parent that is on the stack is neither memoized
\* nor a root, so the recursion never returns: the call stack overflows and
\* the call throws.
RECURSIVE findRootPbi(_, _, _)
findRootPbi(memo, itemId, path) ==
    IF itemId \in DOMAIN memo
    THEN [root |-> memo[itemId], memo |-> memo, threw |-> FALSE]
    ELSE IF itemId \notin DOMAIN allItemsById
    THEN [root |-> Null, memo |-> MapSet(memo, itemId, Null), threw |-> FALSE]
    ELSE IF allItemsById[itemId].type = ROOT_TYPE
    THEN [root |-> itemId, memo |-> MapSet(memo, itemId, itemId), threw |-> FALSE]
    ELSE IF NoParent(allItemsById[itemId])
    THEN [root |-> Null, memo |-> MapSet(memo, itemId, Null), threw |-> FALSE]
    ELSE IF allItemsById[itemId].parent.val \in path \cup {itemId}
    THEN [root |-> Null, memo |-> memo, threw |-> TRUE]
    ELSE LET r == findRootPbi(memo, allItemsById[itemId].parent.val, path \cup {itemId})
         IN  IF r.threw THEN r
             ELSE [root |-> r.root, memo |-> MapSet(r.memo, itemId, r.root), threw |-> FALSE]

\* the parent fields: absent, or the id of another item
ParentValues(id) == {Undefined} \cup {Num(k) : k \in ResolverIds \ {id}}

\* where an item is loaded: in allItems, only in rootItems, or nowhere
Placements == {"all", "root", "none"}

\* the collections the view may be given
InitialCollections ==
    { [place |-> pl, item |-> it] :
        pl \in [ResolverIds -> Placements],
        it \in { f \in [ResolverIds -> [type : ItemTypes, parent : {Undefined} \cup {Num(k) : k \in ResolverIds}]] :
                   \A id \in ResolverIds : f[id].parent \in ParentValues(id) } }

PlannerIdle ==
    /\ workItems = << >>
    /\ selectedDeveloper = NoDev
    /\ view = "planner"
    /\ plan = << >>
    /\ last = [op |-> "init", edit |-> NoEdit, prevPlan |-> << >>, repeat |-> FALSE]
    /\ edits = 0
    /\ handEdited = {}

\* the state when hierarchyMap has built allItemsById and the three empty maps
InitResolver ==
    /\ PlannerIdle
    /\ MetricsIdle
    /\ ProfitIdle
    /\ \E c \in InitialCollections :
           /\ allItems = [id \in {i \in ResolverIds : c.place[i] = "all"} |-> c.item[id]]
           /\ rootItems = [id \in {i \in ResolverIds : c.place[i] = "root"} |-> c.item[id]]
    /\ traversalMemo = << >>
    /\ idMap = << >>
    /\ titleMap = << >>
    /\ status = "running"
    /\ resolved = [item |-> 0, root |-> 0]

\* variant: the fallback also fills the title map
ResolveItem_fallbackTitles(item) ==
    /\ status = "running"
    /\ item \in DOMAIN allItems
    /\ item \notin DOMAIN idMap
    /\ LET r == findRootPbi(traversalMemo, item, {})
       IN  IF r.threw
           THEN /\ status' = "threw"
                /\ resolved' = [item |-> item, root |-> Null]
                /\ UNCHANGED <<traversalMemo, idMap, titleMap>>
           ELSE /\ traversalMemo' = r.memo
                /\ resolved' = [item |-> item, root |-> r.root]
                /\ IF r.root # Null
                   THEN /\ titleMap' = MapSet(titleMap, item, TitleOf(r.root))
                        /\ idMap' = MapSet(idMap, item, r.root)
                   ELSE /\ idMap' = MapSet(idMap, item, item)
                        /\ titleMap' = MapSet(titleMap, item, TitleOf(item))
                /\ UNCHANGED status
    /\ UNCHANGED <<allItems, rootItems, plannerVars, metricsVars, profitVars>>

\* one iteration of allItems.forEach
ResolveItem(item) ==
    /\ status = "running"
    /\ item \in DOMAIN allItems
    /\ item \notin DOMAIN idMap
    /\ LET r == findRootPbi(traversalMemo, item, {})
       IN  IF r.threw
           THEN /\ status' = "threw"
                /\ resolved' = [item |-> item, root |-> Null]
                /\ UNCHANGED <<traversalMemo, idMap, titleMap>>
           ELSE /\ traversalMemo' = r.memo
                /\ resolved' = [item |-> item, root |-> r.root]
                /\ IF r.root # Null
                   THEN /\ titleMap' = MapSet(titleMap, item, TitleOf(r.root))
                        /\ idMap' = MapSet(idMap, item, r.root)
                   ELSE /\ idMap' = MapSet(idMap, item, item)
                        /\ UNCHANGED titleMap
                /\ UNCHANGED status
    /\ UNCHANGED <<allItems, rootItems, plannerVars, metricsVars, profitVars>>

\* forEach is over: return { titleMap, idMap }
ReturnMaps ==
    /\ status = "running"
    /\ DOMAIN idMap = DOMAIN allItems
    /\ status' = "done"
    /\ UNCHANGED <<allItems, rootItems, traversalMemo, idMap, titleMap, resolved, plannerVars, metricsVars, profitVars>>

ResolveStep == \E item \in ResolverIds : ResolveItem(item)

NextResolver == ResolveStep \/ ReturnMaps

SpecResolver == InitResolver /\ [][NextResolver]_vars

(***************************************************************************)
(* Properties of the resolver                                              *)
(***************************************************************************)
\* the item is in the supplied collection and has the root type
IsRootItem(id) == id \in DOMAIN allItemsById /\ allItemsById[id].type = ROOT_TYPE

\* the item is in the supplied collection, has no parent id and is not of the root type
IsOrphan(id) ==
    /\ id \in DOMAIN allItemsById
    /\ allItemsById[id].type # ROOT_TYPE
    /\ ~allItemsById[id].parent.defined

\* C9: resolution of an item of the root type returns that item itself,
\* with or without a parent, present or not in the collection
C9_RootResolvesToItself ==
    /\ \A id \in DOMAIN traversalMemo : IsRootItem(id) => traversalMemo[id] = id
    /\ IsRootItem(resolved.item) =>
           /\ status # "threw"
           /\ resolved.root = resolved.item
           /\ idMap[resolved.item] = resolved.item
           /\ titleMap[resolved.item] = TitleOf(resolved.item)

\* a root-type item whose parent is not in the collection was resolved
C9_Witness ==
    /\ IsRootItem(resolved.item)
    /\ allItemsById[resolved.item].parent.defined
    /\ allItemsById[resolved.item].parent.val \notin DOMAIN allItemsById
    /\ resolved.root = resolved.item

\* C10: resolution of an item with no parent id and a type other than the
\* root type returns null
C10_OrphanResolvesToNull ==
    /\ \A id \in DOMAIN traversalMemo : IsOrphan(id) => traversalMemo[id] = Null
    /\ IsOrphan(resolved.item) =>
           /\ status # "threw"
           /\ resolved.root = Null
           /\ resolved.root # resolved.item
           /\ resolved.item \notin DOMAIN titleMap

\* a task without parent was resolved to null, directly and as the end of another item's chain
C10_Witness ==
    /\ IsOrphan(resolved.item)
    /\ resolved.root = Null
    /\ \E id \in DOMAIN traversalMemo :
           /\ id # resolved.item
           /\ id \in DOMAIN allItemsById
           /\ allItemsById[id].parent = Num(resolved.item)
           /\ traversalMemo[id] = Null

\* the parent id of an item of the collection, Null when it has none
ParentOf(id) ==
    IF id \in DOMAIN allItemsById /\ allItemsById[id].parent.defined
    THEN allItemsById[id].parent.val ELSE Null

\* following parent ids from a non-root item one meets, within n steps and
\* before any root-type item, an id that is not in the collection
RECURSIVE Dangles(_, _)
Dangles(id, n) ==
    /\ n > 0
    /\ id \in DOMAIN allItemsById
    /\ allItemsById[id].type # ROOT_TYPE
    /\ ParentOf(id) # Null
    /\ \/ ParentOf(id) \notin DOMAIN allItemsById
       \/ Dangles(ParentOf(id), n - 1)

ChainDangles(id) == Dangles(id, Cardinality(ResolverIds))

\* C11: resolution of a non-root item whose parent chain reaches an id that
\* is not in the collection before a root-type item returns null and does
\* not throw
C11_DanglingResolvesToNull ==
    /\ \A id \in DOMAIN traversalMemo : ChainDangles(id) => traversalMemo[id] = Null
    /\ ChainDangles(resolved.item) =>
           /\ status # "threw"
           /\ resolved.root = Null
           /\ idMap[resolved.item] = resolved.item

\* an item was resolved whose parent is in the collection and whose grandparent is not
C11_Witness ==
    /\ ChainDangles(resolved.item)
    /\ ParentOf(resolved.item) \in DOMAIN allItemsById
    /\ ParentOf(ParentOf(resolved.item)) # Null
    /\ ParentOf(ParentOf(resolved.item)) \notin DOMAIN allItemsById
    /\ resolved.root = Null
    /\ status = "running"

\* the walk up the parent chain without memo, at most n steps long
RECURSIVE PlainWalk(_, _)
PlainWalk(id, n) ==
    IF id \notin DOMAIN allItemsById THEN Null
    ELSE IF allItemsById[id].type = ROOT_TYPE THEN id
    ELSE IF ParentOf(id) = Null \/ n = 0 THEN Null
    ELSE PlainWalk(ParentOf(id), n - 1)

UnmemoizedRoot(id) == PlainWalk(id, Cardinality(ResolverIds))

\* id is reached again by following parent ids from start, in 1..n steps
RECURSIVE ReturnsTo(_, _, _)
ReturnsTo(id, start, n) ==
    /\ n > 0
    /\ ParentOf(start) # Null
    /\ \/ ParentOf(start) = id
       \/ ReturnsTo(id, ParentOf(start), n - 1)

\* the parent links of the collection have no cycle
Acyclic == \A id \in DOMAIN allItemsById : ~ReturnsTo(id, id, Cardinality(ResolverIds))

\* C12: over an acyclic collection, in whatever order the items are
\* resolved, every memoized result is the result of the walk without memo,
\* and items with the same parent have the same result
C12_MemoEqualsPlainWalk ==
    Acyclic =>
        /\ status # "threw"
        /\ \A id \in DOMAIN traversalMemo : traversalMemo[id] = UnmemoizedRoot(id)
        /\ resolved.item # 0 => resolved.root = UnmemoizedRoot(resolved.item)
        /\ \A a, b \in DOMAIN idMap :
               (~IsRootItem(a) /\ ~IsRootItem(b) /\ ParentOf(a) # Null /\ ParentOf(a) = ParentOf(b)) =>
                   traversalMemo[a] = traversalMemo[b]

\* two tasks with the same parent were resolved to the same root, the
\* second one finding the parent's result in the memo
C12_Witness ==
    /\ Acyclic
    /\ \E a, b \in DOMAIN idMap :
           /\ a # b
           /\ ~IsRootItem(a) /\ ~IsRootItem(b)
           /\ ParentOf(a) # Null /\ ParentOf(a) = ParentOf(b)
           /\ ParentOf(a) \in DOMAIN traversalMemo
           /\ idMap[a] = idMap[b]
           /\ idMap[a] \notin {a, b}

\* C13: when the batch is over, the id map has an entry for every item of
\* allItems, the root's id when there is a root and the own id otherwise,
\* and the title map has the root's title for exactly the items with a root
C13_GroupingFallback ==
    status = "done" =>
        /\ DOMAIN idMap = DOMAIN allItems
        /\ \A item \in DOMAIN allItems :
               idMap[item] = IF UnmemoizedRoot(item) # Null THEN UnmemoizedRoot(item) ELSE item
        /\ DOMAIN titleMap = {item \in DOMAIN allItems : UnmemoizedRoot(item) # Null}
        /\ \A item \in DOMAIN titleMap : titleMap[item] = TitleOf(UnmemoizedRoot(item))

\* a finished batch with one item grouped under another item and one under itself by fallback
C13_Witness ==
    /\ status = "done"
    /\ \E a, b \in DOMAIN allItems :
           /\ idMap[a] # a /\ a \in DOMAIN titleMap
           /\ idMap[b] = b /\ b \notin DOMAIN titleMap /\ ~IsRootItem(b)

\* following parent ids from id for n steps one stays among items of the
\* collection that are not of the root type and have a parent: with n the
\* number of ids, the chain runs into a cycle without root
RECURSIVE WalkLoops(_, _)
WalkLoops(id, n) ==
    /\ id \in DOMAIN allItemsById
    /\ allItemsById[id].type # ROOT_TYPE
    /\ ParentOf(id) # Null
    /\ (n = 0 \/ WalkLoops(ParentOf(id), n - 1))

OnOrIntoCycle(id) == WalkLoops(id, Cardinality(ResolverIds))

\* C24: resolution ends on every collection; for an item on a cycle of
\* parent links without root-type item, or leading into one, it ends with
\* null and the batch goes on
C24_CycleEndsWithNull ==
    /\ status # "threw"
    /\ (resolved.item # 0 /\ OnOrIntoCycle(resolved.item)) =>
           /\ resolved.root = Null
           /\ resolved.item \in DOMAIN idMap

\* the n-th ancestor of an item, the item itself for n = 0, Null when the
\* chain ends before
RECURSIVE Ancestor(_, _)
Ancestor(id, n) ==
    IF n = 0 THEN id
    ELSE IF Ancestor(id, n - 1) = Null THEN Null
    ELSE ParentOf(Ancestor(id, n - 1))

\* root is the first item of the root type on the chain of id
NearestRoot(id, root) ==
    \E n \in 0..Cardinality(ResolverIds) :
        /\ Ancestor(id, n) = root
        /\ IsRootItem(root)
        /\ \A k \in 0..(n - 1) : ~IsRootItem(Ancestor(id, k))

\* C28: a root returned for an item has the root type, is the item itself
\* or an ancestor of it, and is the nearest such item on the chain
C28_NearestRoot ==
    /\ (resolved.item # 0 /\ resolved.root # Null) => NearestRoot(resolved.item, resolved.root)
    /\ \A id \in DOMAIN traversalMemo :
           traversalMemo[id] # Null => NearestRoot(id, traversalMemo[id])
    /\ \A id \in DOMAIN titleMap : NearestRoot(id, idMap[id])

\* a task was resolved to its parent, a backlog item that itself lies
\* below another backlog item
C28_Witness ==
    /\ resolved.item # 0
    /\ resolved.root # Null
    /\ resolved.root # resolved.item
    /\ ParentOf(resolved.item) = resolved.root
    /\ ParentOf(resolved.root) # Null
    /\ IsRootItem(ParentOf(resolved.root))

(***************************************************************************)
(* Summaries and metrics of the task analysis view                         *)
(***************************************************************************)
\* System.AssignedTo?.displayName of an item, NoDev when it has none
DevNameOf(item) == item.assignedTo

\* the tags of an item: System.Tags split at '; ', none when the field is absent
TagsOf(item) == {item.tags[k] : k \in DOMAIN item.tags}

\* availableDevs of the analysis view
analysisDevs == {DevNameOf(allItems[i]) : i \in {j \in DOMAIN allItems : DevNameOf(allItems[j]) # NoDev}}

\* itemsOfSelectedDevs
itemsOfSelectedDevsFor(devs) ==
    IF devs = {} THEN {} ELSE {i \in DOMAIN allItems : DevNameOf(allItems[i]) \in devs}

\* availableTags
availableTagsFor(devs) == UNION {TagsOf(allItems[i]) : i \in itemsOfSelectedDevsFor(devs)}

\* filteredItems, as the set of their ids
filteredItemsFor(devs, tag) ==
    IF tag = NoTag \/ itemsOfSelectedDevsFor(devs) = {} THEN {}
    ELSE {i \in itemsOfSelectedDevsFor(devs) : tag \in TagsOf(allItems[i])}

filteredItems == filteredItemsFor(selectedDevs, selectedTag)

\* value ?? 0
NullishZero(f) == IF f.defined THEN f.val ELSE 0

\* WorkItemType.toLowerCase() === 'linea'
IsLinea(type) == type \in {"Linea", "linea", "LINEA"}

Pending == [state |-> "pending", estimated |-> Undefined, invested |-> Undefined]

Fulfilled(estimated, invested) == [state |-> "fulfilled", estimated |-> estimated, invested |-> invested]

Rejected == [state |-> "rejected", estimated |-> Undefined, invested |-> Undefined]

\* what getTaskSummary may answer for a task
SummaryValues == {Fulfilled(Undefined, Num(7)), Rejected}

\* the promise made for one filtered item
summaryPromise(item) ==
    IF item.type = "Task" THEN Pending
    ELSE IF IsLinea(item.type) THEN Fulfilled(Num(0), Num(OrZero(item.horas)))
    ELSE Fulfilled(Num(0), Num(0))

\* the batch calculateSummaries starts for a list of filtered items
NewBatch(items) == [items |-> items, results |-> [i \in items |-> summaryPromise(allItems[i])]]

AllSettled(batch) == \A i \in batch.items : batch.results[i].state # "pending"

\* variant: one rejected lookup makes the batch store an empty map
newSummaries_firstFailureEmpties(batch) ==
    IF \E i \in batch.items : batch.results[i].state = "rejected" THEN << >>
    ELSE [i \in batch.items |->
            [estimated |-> NullishZero(batch.results[i].estimated),
             invested |-> NullishZero(batch.results[i].invested)]]

\* newSummaries, built from the results of Promise.allSettled
newSummaries(batch) ==
    [i \in batch.items |->
        IF batch.results[i].state = "fulfilled"
        THEN [estimated |-> NullishZero(batch.results[i].estimated),
              invested |-> NullishZero(batch.results[i].invested)]
        ELSE [estimated |-> 0, invested |-> 0]]

\* removal of the k-th element of a sequence
RemoveAt(seq, k) == SubSeq(seq, 1, k - 1) \o SubSeq(seq, k + 1, Len(seq))

\* sum of curr.invested || 0 over the summaries of a set of items
RECURSIVE SumInvested(_, _)
SumInvested(summaries, ids) ==
    IF ids = {} THEN 0
    ELSE LET i == CHOOSE j \in ids : TRUE
         IN  summaries[i].invested + SumInvested(summaries, ids \ {i})

\* hierarchyMap.idMap.get(item.id) || item.id
RootIdOf(item) == IF item \in DOMAIN idMap /\ idMap[item] # 0 THEN idMap[item] ELSE item

\* parseFloat((hours / count).toFixed(2)), in hundredths of an hour
Average(hours, count) == IF count > 0 THEN (200 * hours + count) \div (2 * count) ELSE 0

\* variant: every filtered item counts as one
uniqueRootItems_noDedup == filteredItems

\* uniqueRootItems of globalMetrics
uniqueRootItems == {RootIdOf(i) : i \in filteredItems}

globalMetrics ==
    [totalItems |-> Cardinality(uniqueRootItems),
     totalInvestedHours |-> SumInvested(taskSummaries, DOMAIN taskSummaries),
     avgHoursPerItem |->
         Average(SumInvested(taskSummaries, DOMAIN taskSummaries), Cardinality(uniqueRootItems))]

\* the filtered items that devMetrics counts for a developer
CountedFor(devName) ==
    {i \in filteredItems : DevNameOf(allItems[i]) = devName /\ i \in DOMAIN taskSummaries}

\* variant: the hours of a root are added once, with the first of its items
devMetrics_hoursOncePerRoot ==
    [devName \in {d \in Developers : CountedFor(d) # {}} |->
        LET firstOfRoot == {i \in CountedFor(devName) :
                               \A j \in CountedFor(devName) : RootIdOf(j) = RootIdOf(i) => i <= j}
        IN  [itemCount |-> Cardinality({RootIdOf(i) : i \in CountedFor(devName)}),
             investedHours |-> SumInvested(taskSummaries, firstOfRoot),
             averageHours |-> Average(SumInvested(taskSummaries, firstOfRoot),
                                      Cardinality({RootIdOf(i) : i \in CountedFor(devName)}))]]

\* devMetrics, as a map from the developer name to its row
devMetrics ==
    [devName \in {d \in Developers : CountedFor(d) # {}} |->
        [itemCount |-> Cardinality({RootIdOf(i) : i \in CountedFor(devName)}),
         investedHours |-> SumInvested(taskSummaries, CountedFor(devName)),
         averageHours |-> Average(SumInvested(taskSummaries, CountedFor(devName)),
                                  Cardinality({RootIdOf(i) : i \in CountedFor(devName)}))]]

\* showContent: the metrics are rendered
showContent == selectedDevs # {} /\ selectedTag # NoTag

\* the whole hierarchyMap computation over allItems, in the order of the ids
RECURSIVE hierarchyLoop(_, _)
hierarchyLoop(acc, todo) ==
    IF todo = {} \/ acc.threw THEN acc
    ELSE LET item == CHOOSE i \in todo : \A j \in todo : i <= j
             r    == findRootPbi(acc.memo, item, {})
         IN  IF r.threw THEN [acc EXCEPT !.threw = TRUE]
             ELSE hierarchyLoop(
                    [memo |-> r.memo,
                     idMap |-> MapSet(acc.idMap, item, IF r.root # Null THEN r.root ELSE item),
                     titleMap |-> IF r.root # Null THEN MapSet(acc.titleMap, item, TitleOf(r.root))
                                  ELSE acc.titleMap,
                     threw |-> FALSE],
                    todo \ {item})

hierarchyMap == hierarchyLoop([memo |-> << >>, idMap |-> << >>, titleMap |-> << >>, threw |-> FALSE],
                              DOMAIN allItems)

\* one item of the analysis view
AnalysisItem(type, parent, dev, tags, horas) ==
    [type |-> type, parent |-> parent, assignedTo |-> dev, tags |-> tags, horas |-> horas]

\* the collections of the metrics runs: a backlog item, two items below it
\* and a task that is below it or stands alone
MetricsCollections ==
    { <<AnalysisItem(ROOT_TYPE, Undefined, "ana", <<"alpha">>, Undefined),
        AnalysisItem("Task", Num(1), "ana", <<"alpha">>, Undefined),
        AnalysisItem(t3, Num(1), d3, <<"alpha", "beta">>, Num(6)),
        AnalysisItem("Task", p4, "bob", <<"alpha">>, Undefined)>> :
      t3 \in {"Task", "Linea"}, d3 \in {"ana", "bob"}, p4 \in {Undefined, Num(1)} }

\* the view after its first render: hierarchy map computed, no filter, the
\* first run of the summaries effect has stored an empty map
InitMetrics ==
    /\ PlannerIdle
    /\ ProfitIdle
    /\ \E c \in MetricsCollections :
           /\ allItems = [id \in 1..4 |-> c[id]]
           /\ rootItems = [id \in {1} |-> c[id]]
    /\ ~hierarchyMap.threw
    /\ traversalMemo = hierarchyMap.memo
    /\ idMap = hierarchyMap.idMap
    /\ titleMap = hierarchyMap.titleMap
    /\ status = "done"
    /\ resolved = [item |-> 0, root |-> 0]
    /\ selectedDevs = {}
    /\ selectedTag = NoTag
    /\ taskSummaries = << >>
    /\ isSummariesLoading = FALSE
    /\ batches = << >>
    /\ changes = 0
    /\ settled = [op |-> "init", batch |-> NoBatch]
    /\ overlapped = FALSE

\* the summaries effect for a new list of filtered items. A batch without
\* task lookups is settled from the start and stores its summaries before
\* any other event is handled.
RunSummariesEffect(items) ==
    IF items = {}
    THEN /\ taskSummaries' = << >>
         /\ settled' = [op |-> "filter", batch |-> NoBatch]
         /\ UNCHANGED <<isSummariesLoading, batches>>
    ELSE IF AllSettled(NewBatch(items))
    THEN /\ taskSummaries' = newSummaries(NewBatch(items))
         /\ isSummariesLoading' = FALSE
         /\ settled' = [op |-> "complete", batch |-> NewBatch(items)]
         /\ UNCHANGED batches
    ELSE /\ isSummariesLoading' = TRUE
         /\ batches' = Append(batches, NewBatch(items))
         /\ settled' = [op |-> "filter", batch |-> NoBatch]
         /\ UNCHANGED taskSummaries

\* onSelectedDevsChange, the tag validation effect and the summaries effect
OnSelectedDevsChange(devs) ==
    /\ changes < MaxFilterChanges
    /\ devs # selectedDevs
    /\ changes' = changes + 1
    /\ overlapped' = (overlapped \/ batches # << >>)
    /\ selectedDevs' = devs
    /\ selectedTag' = IF selectedTag # NoTag /\ selectedTag \notin availableTagsFor(devs)
                      THEN NoTag ELSE selectedTag
    /\ RunSummariesEffect(filteredItemsFor(devs, selectedTag'))
    /\ UNCHANGED <<plannerVars, resolverVars, profitVars>>

\* onSelectedTagChange and the summaries effect
OnSelectedTagChange(tag) ==
    /\ changes < MaxFilterChanges
    /\ tag # selectedTag
    /\ changes' = changes + 1
    /\ overlapped' = (overlapped \/ batches # << >>)
    /\ selectedTag' = tag
    /\ RunSummariesEffect(filteredItemsFor(selectedDevs, tag))
    /\ UNCHANGED <<selectedDevs, plannerVars, resolverVars, profitVars>>

\* one getTaskSummary promise settles; when it is the last of its batch,
\* the continuation of calculateSummaries stores the batch's summaries
SettleLookup(k, item, outcome) ==
    /\ k \in DOMAIN batches
    /\ item \in batches[k].items
    /\ batches[k].results[item].state = "pending"
    /\ LET batch == [batches[k] EXCEPT !.results[item] = outcome]
       IN  IF AllSettled(batch)
           THEN /\ taskSummaries' = newSummaries(batch)
                /\ isSummariesLoading' = FALSE
                /\ batches' = RemoveAt(batches, k)
                /\ settled' = [op |-> "complete", batch |-> batch]
           ELSE /\ batches' = [batches EXCEPT ![k] = batch]
                /\ settled' = [op |-> "lookup", batch |-> NoBatch]
                /\ UNCHANGED <<taskSummaries, isSummariesLoading>>
    /\ UNCHANGED <<selectedDevs, selectedTag, changes, overlapped, plannerVars, resolverVars, profitVars>>

DevsStep == \E devs \in SUBSET analysisDevs : OnSelectedDevsChange(devs)

TagStep == \E tag \in availableTagsFor(selectedDevs) \cup {NoTag} : OnSelectedTagChange(tag)

LookupStep ==
    \E k \in 1..MaxFilterChanges, item \in 1..4, outcome \in SummaryValues : SettleLookup(k, item, outcome)

NextMetrics == DevsStep \/ TagStep \/ LookupStep

SpecMetrics == InitMetrics /\ [][NextMetrics]_vars

(***************************************************************************)
(* Claims about the metrics                                                *)
(***************************************************************************)
\* the group id of an item: the root found by walking up its parent chain,
\* or its own id when there is none
GroupIdOf(id) == IF UnmemoizedRoot(id) # Null THEN UnmemoizedRoot(id) ELSE id

\* the filtered items assigned to a developer
FilteredOf(devName) == {i \in filteredItems : DevNameOf(allItems[i]) = devName}

\* no batch of lookups is in flight and the view does not show itself as loading
AtRest == batches = << >> /\ ~isSummariesLoading

\* C14: the global unique-root count is the number of distinct group ids
\* among the filtered items; items under one root count once
C14_UniqueRootCount ==
    globalMetrics.totalItems = Cardinality({GroupIdOf(i) : i \in filteredItems})

\* two filtered items share a root and the count is below the number of items
C14_Witness ==
    /\ \E a, b \in filteredItems : a # b /\ GroupIdOf(a) = GroupIdOf(b) /\ GroupIdOf(a) \notin {a, b}
    /\ globalMetrics.totalItems < Cardinality(filteredItems)
    /\ globalMetrics.totalItems > 0

\* C15: once every lookup has settled and the metrics are on screen, the
\* global total invested hours is the sum of the invested hours of every
\* filtered item, one contribution per item; the average is 0 when there
\* are no roots
C15_TotalOverFiltered ==
    /\ (AtRest /\ showContent) =>
          /\ filteredItems \subseteq DOMAIN taskSummaries
          /\ globalMetrics.totalInvestedHours = SumInvested(taskSummaries, filteredItems)
    /\ filteredItems = {} => globalMetrics.avgHoursPerItem = 0

\* C16: once every lookup has settled and the metrics are on screen, every
\* developer with filtered items has a row whose item count is the number of
\* distinct group ids among that developer's own filtered items and whose
\* invested hours is the sum over them
C16_PerDeveloperDedup ==
    (AtRest /\ showContent) =>
        \A d \in Developers :
            FilteredOf(d) # {} =>
                /\ d \in DOMAIN devMetrics
                /\ devMetrics[d].itemCount = Cardinality({GroupIdOf(i) : i \in FilteredOf(d)})
                /\ FilteredOf(d) \subseteq DOMAIN taskSummaries
                /\ devMetrics[d].investedHours = SumInvested(taskSummaries, FilteredOf(d))

\* the fetched value of a settled lookup, an absent field read as 0
FetchedValue(f) == IF f.defined THEN f.val ELSE 0

\* C17: a batch in which some lookups failed still completes: every item
\* filtered for the batch gets a summary entry, a failed item gets 0 and 0,
\* a successful item keeps its fetched values
C17_PartialFailure ==
    (settled.op = "complete" /\ \E i \in settled.batch.items : settled.batch.results[i].state = "rejected") =>
        /\ ~isSummariesLoading
        /\ DOMAIN taskSummaries = settled.batch.items
        /\ \A i \in settled.batch.items :
              IF settled.batch.results[i].state = "rejected"
              THEN taskSummaries[i] = [estimated |-> 0, invested |-> 0]
              ELSE /\ taskSummaries[i].estimated = FetchedValue(settled.batch.results[i].estimated)
                   /\ taskSummaries[i].invested = FetchedValue(settled.batch.results[i].invested)

\* a completed batch with one failed lookup and one successful lookup whose
\* hours were stored
C17_Witness ==
    /\ settled.op = "complete"
    /\ \E i, j \in settled.batch.items :
          /\ settled.batch.results[i].state = "rejected"
          /\ allItems[j].type = "Task"
          /\ settled.batch.results[j].state = "fulfilled"
          /\ j \in DOMAIN taskSummaries
          /\ taskSummaries[j].invested > 0

\* C25: when the filter changed while a batch was in flight, then once all
\* lookups have settled the stored summaries hold exactly one entry per item
\* filtered now, whatever the order in which the batches complete
C25_LatestSelectionWins ==
    (overlapped /\ batches = << >>) =>
        /\ DOMAIN taskSummaries = filteredItems
        /\ ~isSummariesLoading

\* sum of a field of the rows of the per-developer metrics
RECURSIVE SumRows(_, _, _)
SumRows(rows, devs, field) ==
    IF devs = {} THEN 0
    ELSE LET d == CHOOSE e \in devs : TRUE
         IN  (IF field = "hours" THEN rows[d].investedHours ELSE rows[d].itemCount)
               + SumRows(rows, devs \ {d}, field)

\* C29: when the stored summaries cover exactly the filtered items, the
\* invested hours of the developers add up to the global total and their
\* item counts add up to at least the global unique-root count
C29_DevelopersAddUp ==
    DOMAIN taskSummaries = filteredItems =>
        LET rows == devMetrics
        IN  /\ SumRows(rows, DOMAIN rows, "hours") = globalMetrics.totalInvestedHours
            /\ SumRows(rows, DOMAIN rows, "count") >= globalMetrics.totalItems

\* two developers share a root, one of them has two items with hours under
\* it, and the counts add up to more than the global count
C29_Witness ==
    /\ DOMAIN taskSummaries = filteredItems
    /\ Cardinality(DOMAIN devMetrics) = 2
    /\ SumRows(devMetrics, DOMAIN devMetrics, "count") > globalMetrics.totalItems
    /\ \E d \in DOMAIN devMetrics :
          \E a, b \in FilteredOf(d) :
              /\ a # b /\ GroupIdOf(a) = GroupIdOf(b)
              /\ taskSummaries[a].invested > 0 /\ taskSummaries[b].invested > 0
    /\ globalMetrics.totalInvestedHours > 0

(***************************************************************************)
(* The profitability calculator                                            *)
(***************************************************************************)
\* the projects offered by the selector: their client price and the hour
\* records that getDescendantLineas returns for them
ProfitProjects == {1, 2}

Valorrepetitivo(project) == IF project = 1 THEN Num(20) ELSE Undefined

DescendantLineas(project) ==
    IF project = 1
    THEN << [person |-> "ana", horas |-> Num(2)],
            [person |-> "ana", horas |-> Num(1)],
            [person |-> NoDev, horas |-> Num(5)] >>
    ELSE << [person |-> "ana", horas |-> Num(2)],
            [person |-> "bob", horas |-> Undefined] >>

\* the texts typed into a cost input
CostTexts == {<<>>, <<"2">>, <<"3">>, <<"-", "1">>, <<"x">>}

\* parseFloat of a text that has neither a fraction nor an exponent
parseFloat(costStr) == ParseInt(costStr)

\* hours of the records added up per assigned person; records without a
\* person are skipped
RECURSIVE hoursByPerson(_)
hoursByPerson(lineas) ==
    IF lineas = <<>> THEN << >>
    ELSE LET before == hoursByPerson(SubSeq(lineas, 1, Len(lineas) - 1))
             linea  == lineas[Len(lineas)]
             hours  == OrZero(linea.horas)
         IN  IF linea.person = NoDev THEN before
             ELSE MapSet(before, linea.person,
                         (IF linea.person \in DOMAIN before THEN before[linea.person] ELSE 0) + hours)

\* every cost is a non-empty text holding a number that is not negative, and
\* there is some personnel
isFormValid ==
    /\ selectedProject # NoProject
    /\ \A n \in DOMAIN personnelCosts :
          /\ StripLeadingSpace(personnelCosts[n]) # <<>>
          /\ ~parseFloat(personnelCosts[n]).nan
          /\ parseFloat(personnelCosts[n]).val >= 0
    /\ DOMAIN personnel # {}

\* parseFloat(personnelCosts.get(name) || '0')
CostOf(costs, name) ==
    parseFloat(IF name \in DOMAIN costs /\ costs[name] # <<>> THEN costs[name] ELSE <<"0">>)

RECURSIVE SumCost(_, _, _)
SumCost(people, costs, names) ==
    IF names = {} THEN 0
    ELSE LET n == CHOOSE e \in names : TRUE
         IN  people[n] * CostOf(costs, n).val + SumCost(people, costs, names \ {n})

\* the sum of hours x cost over the personnel; NaN when a cost is not a number
TotalCost(people, costs) ==
    IF \E n \in DOMAIN people : CostOf(costs, n).nan THEN NaN
    ELSE Number(SumCost(people, costs, DOMAIN people))

\* the result that handleCalculate computes; the margin is the exact ratio
\* num / den
ProfitabilityResult(project, people, costs) ==
    LET clientCost  == OrZero(Valorrepetitivo(project))
        totalCost   == TotalCost(people, costs)
        totalProfit == IF totalCost.nan THEN NaN ELSE Number(clientCost - totalCost.val)
    IN  [shown        |-> TRUE,
         totalRevenue |-> clientCost,
         totalCost    |-> totalCost,
         totalProfit  |-> totalProfit,
         profitMargin |-> IF clientCost > 0 /\ ~totalProfit.nan
                          THEN [num |-> totalProfit.val * 100, den |-> clientCost]
                          ELSE [num |-> 0, den |-> 1]]

\* a project is picked in the selector: the form is cleared and the hour
\* records are requested
HandleProjectSelect(project) ==
    /\ userActions < MaxUserActions
    /\ userActions' = userActions + 1
    /\ selectedProject' = project
    /\ personnel' = << >>
    /\ personnelCosts' = << >>
    /\ results' = NoResult
    /\ isLoadingPersonnel' = TRUE
    /\ fetches' = Append(fetches, project)
    /\ sinceCalculate' = FALSE
    /\ UNCHANGED <<isCalculating, timers, plannerVars, resolverVars, metricsVars>>

\* a pending request settles: then (ok) / catch, and finally
PersonnelSettles(k, ok) ==
    /\ k \in 1..Len(fetches)
    /\ fetches' = RemoveAt(fetches, k)
    /\ IF ok
       THEN LET newPersonnel == hoursByPerson(DescendantLineas(fetches[k]))
            IN  /\ personnel' = newPersonnel
                /\ personnelCosts' = [n \in DOMAIN newPersonnel |-> <<>>]
       ELSE UNCHANGED <<personnel, personnelCosts>>
    /\ isLoadingPersonnel' = FALSE
    /\ UNCHANGED <<selectedProject, results, isCalculating, timers, sinceCalculate, userActions,
                   plannerVars, resolverVars, metricsVars>>

\* a cost input of a listed person changes
HandleCostChange(name, typed) ==
    /\ userActions < MaxUserActions
    /\ selectedProject # NoProject
    /\ ~isLoadingPersonnel
    /\ name \in DOMAIN personnel
    /\ userActions' = userActions + 1
    /\ personnelCosts' = MapSet(personnelCosts, name, InputValue(typed))
    /\ results' = NoResult
    /\ sinceCalculate' = FALSE
    /\ UNCHANGED <<selectedProject, personnel, isLoadingPersonnel, isCalculating, fetches, timers,
                   plannerVars, resolverVars, metricsVars>>

\* the Calculate button: the result is computed now and stored by a timer
HandleCalculate ==
    /\ userActions < MaxUserActions
    /\ isFormValid
    /\ ~isCalculating
    /\ userActions' = userActions + 1
    /\ isCalculating' = TRUE
    /\ timers' = Append(timers, ProfitabilityResult(selectedProject, personnel, personnelCosts))
    /\ sinceCalculate' = TRUE
    /\ UNCHANGED <<selectedProject, personnel, personnelCosts, results, isLoadingPersonnel, fetches,
                   plannerVars, resolverVars, metricsVars>>

\* the oldest timer fires after its 500 ms
TimerFires ==
    /\ timers # <<>>
    /\ results' = Head(timers)
    /\ isCalculating' = FALSE
    /\ timers' = Tail(timers)
    /\ UNCHANGED <<selectedProject, personnel, personnelCosts, isLoadingPersonnel, fetches,
                   sinceCalculate, userActions, plannerVars, resolverVars, metricsVars>>

\* the reset button, shown while a project is selected
HandleReset ==
    /\ userActions < MaxUserActions
    /\ selectedProject # NoProject
    /\ userActions' = userActions + 1
    /\ selectedProject' = NoProject
    /\ personnel' = << >>
    /\ personnelCosts' = << >>
    /\ results' = NoResult
    /\ sinceCalculate' = FALSE
    /\ UNCHANGED <<isLoadingPersonnel, isCalculating, fetches, timers,
                   plannerVars, resolverVars, metricsVars>>

SelectProjectStep == \E project \in ProfitProjects : HandleProjectSelect(project)

PersonnelStep == \E k \in 1..Len(fetches), ok \in BOOLEAN : PersonnelSettles(k, ok)

CostStep == \E name \in Developers, typed \in CostTexts : HandleCostChange(name, typed)

InitProfit ==
    /\ PlannerIdle
    /\ ResolverIdle
    /\ MetricsIdle
    /\ ProfitIdle

NextProfit ==
    \/ SelectProjectStep
    \/ PersonnelStep
    \/ CostStep
    \/ HandleCalculate
    \/ TimerFires
    \/ HandleReset

SpecProfit == InitProfit /\ [][NextProfit]_vars

\* C30: whenever a result is shown, a project is selected, no cost change,
\* selection or reset came after the Calculate that produced it, and it is
\* the result of the costs now entered
C30_NeverStale ==
    results # NoResult =>
        /\ selectedProject # NoProject
        /\ sinceCalculate
        /\ results = ProfitabilityResult(selectedProject, personnel, personnelCosts)

====
